---- MODULE Spec2Model ----
(***************************************************************************)
(* Model of pkg/api/v1/state.go of TestGrid: the grid resolution and       *)
(* decoding path behind ListHeaders and ListRows.                          *)
(*                                                                         *)
(* The pure parts of the handlers (decodeRLE, findDashboardTab, Grid, the  *)
(* header and row projections, the HTTP status mapping) are operators      *)
(* computed as the code computes them.  Each is exercised by a sequential  *)
(* specification that draws the call's arguments from bounded sets (args)  *)
(* and applies the operator (result).  The locking discipline of the       *)
(* handlers is modelled by a concurrent specification (SpecConc).          *)
(***************************************************************************)
EXTENDS Integers, Sequences, FiniteSets, TLC

VARIABLES
    pc,       \* sequential specifications: "call" before, "return" after
    args,     \* sequential specifications: the arguments of the call
    result,   \* sequential specifications: what the call returned
    reqPc,    \* SpecConc: position of each request in its handler
    reqOp,    \* SpecConc: the handler each request runs
    readers,  \* SpecConc: requests holding cfg.Mutex.RLock
    writer,   \* SpecConc: state of the refresh w.r.t. cfg.Mutex.Lock
    snapshot, \* SpecConc: version of the config snapshot cfg points to
    acquired, \* SpecConc: number of RLock calls made by each request
    released, \* SpecConc: number of RUnlock calls made by each request
    outcome   \* SpecConc: what each request returned

vars == <<pc, args, result, reqPc, reqOp, readers, writer, snapshot,
          acquired, released, outcome>>

seqVars == <<pc, args, result>>
concVars == <<reqPc, reqOp, readers, writer, snapshot, acquired, released, outcome>>

None == [kind |-> "none"]

(***************************************************************************)
(* Generic helpers.                                                        *)
(***************************************************************************)
SeqsUpTo(S, n) == UNION {[1..k -> S] : k \in 0..n}

Range(s) == {s[i] : i \in 1..Len(s)}

(***************************************************************************)
(* Codec: decodeRLE (state.go 96-109).                                     *)
(***************************************************************************)
MaxEncodedLen == 4
MaxRun == 4

\* int32 values appearing in encoded data: results and run lengths
\* (a run length is an int32 and may be negative).
EncodedInts == (-1)..(MaxRun + 1)

\* inner loop: for cellRepeatCount := n; cellRepeatCount > 0; cellRepeatCount--
\*                 decodedResult = append(decodedResult, value)
RECURSIVE appendRepeated(_, _, _)
appendRepeated(decodedResult, value, cellRepeatCount) ==
    IF cellRepeatCount > 0
    THEN appendRepeated(Append(decodedResult, value), value, cellRepeatCount - 1)
    ELSE decodedResult

\* outer loop: for encodedDataIdx := 0; encodedDataIdx < len; encodedDataIdx += 2
\* (encodedDataIdx is 0-based as in the code; TLA+ sequences are 1-based).
RECURSIVE decodePairs(_, _, _)
decodePairs(encodedData, encodedDataIdx, decodedResult) ==
    IF encodedDataIdx < Len(encodedData)
    THEN decodePairs(encodedData, encodedDataIdx + 2,
                     appendRepeated(decodedResult,
                                    encodedData[encodedDataIdx + 1],
                                    encodedData[encodedDataIdx + 2]))
    ELSE decodedResult

\* Mutant: the inner loop runs one time too many (cellRepeatCount >= 0).
decodeRLEOffByOne(encodedData) ==
    IF Len(encodedData) % 2 = 0
    THEN decodePairs([i \in 1..Len(encodedData) |->
                        IF i % 2 = 0 THEN encodedData[i] + 1 ELSE encodedData[i]],
                     0, <<>>)
    ELSE <<>>

decodeRLE(encodedData) ==
    IF Len(encodedData) % 2 = 0
    THEN decodePairs(encodedData, 0, <<>>)
    ELSE <<>>

IdleConc ==
    /\ reqPc = <<>>
    /\ reqOp = <<>>
    /\ readers = {}
    /\ writer = "idle"
    /\ snapshot = 0
    /\ acquired = <<>>
    /\ released = <<>>
    /\ outcome = <<>>

InitCodec ==
    /\ pc = "call"
    /\ args \in [encodedData : SeqsUpTo(EncodedInts, MaxEncodedLen)]
    /\ result = None
    /\ IdleConc

DecodeRLE ==
    /\ pc = "call"
    /\ pc' = "return"
    /\ result' = [kind |-> "decoded", decodedResult |-> decodeRLE(args.encodedData)]
    /\ UNCHANGED <<args, concVars>>

NextCodec == DecodeRLE

SpecCodec == InitCodec /\ [][NextCodec]_vars

\* Reference reading of an encoded sequence, independent of the loops above.
NumPairs(e) == Len(e) \div 2
PairValue(e, j) == e[2 * j - 1]
PairRun(e, j) == e[2 * j]

RECURSIVE RunsBefore(_, _)
RunsBefore(e, j) == IF j <= 1 THEN 0 ELSE RunsBefore(e, j - 1) + PairRun(e, j - 1)

NonNegativeRuns(e) == \A j \in 1..NumPairs(e) : PairRun(e, j) >= 0

\* C1: for every even-length encoded sequence with non-negative run lengths,
\* decodeRLE returns the concatenation, in pair order, of each value repeated
\* runLength times: the output length is the sum of the run lengths, pair j
\* occupies exactly the positions after the runs before it (so a run of 0
\* occupies none), and decodeRLE([0,3,5,4]) = [0,0,0,5,5,5,5].
C1_DecodeConcatenates ==
    (pc = "return" /\ result.kind = "decoded"
        /\ Len(args.encodedData) % 2 = 0 /\ NonNegativeRuns(args.encodedData)) =>
    LET e == args.encodedData
        d == result.decodedResult
    IN  /\ Len(d) = RunsBefore(e, NumPairs(e) + 1)
        /\ \A j \in 1..NumPairs(e) : \A i \in 1..PairRun(e, j) :
               d[RunsBefore(e, j) + i] = PairValue(e, j)
        /\ (e = <<0, 3, 5, 4>> => d = <<0, 0, 0, 5, 5, 5, 5>>)

C1_Witness ==
    /\ pc = "return"
    /\ args.encodedData = <<0, 3, 5, 4>>
    /\ result.decodedResult = <<0, 0, 0, 5, 5, 5, 5>>

(***************************************************************************)
(* Name Index: config.Normalize, the normalized indexes of cachedConfig    *)
(* and findDashboardTab (state.go 39-64).                                  *)
(*                                                                         *)
(* Names are sequences of characters, so that Normalize can work on them.  *)
(* The Go empty string is the empty sequence; a nil error is nil.          *)
(***************************************************************************)
MaxNameLen == 2
MaxTabs == 2

Chars == {"a", "A", " "}

nil == "nil"

Lower(c) == IF c = "A" THEN "a" ELSE c

\* Drops every space that starts the name or follows another space.
RECURSIVE CollapseSpaces(_, _)
CollapseSpaces(s, afterSpace) ==
    IF s = <<>> THEN <<>>
    ELSE IF Head(s) = " "
         THEN IF afterSpace THEN CollapseSpaces(Tail(s), TRUE)
              ELSE <<" ">> \o CollapseSpaces(Tail(s), TRUE)
         ELSE <<Head(s)>> \o CollapseSpaces(Tail(s), FALSE)

TrimRight(s) ==
    IF s # <<>> /\ s[Len(s)] = " " THEN SubSeq(s, 1, Len(s) - 1) ELSE s

\* config.Normalize: case-fold, trim and collapse whitespace.
Normalize(s) == TrimRight(CollapseSpaces([i \in 1..Len(s) |-> Lower(s[i])], TRUE))

\* Canonical names stored in the configuration.
DashA == <<"A">>
DashB == <<"A", "a">>
DashboardNames == {DashA, DashB}

TabSet ==
    { [Name |-> <<"A">>,      TestGroupName |-> <<"g">>],
      [Name |-> <<"a", "A">>, TestGroupName |-> <<"h">>],
      [Name |-> <<"a">>,      TestGroupName |-> <<"h">>],
      [Name |-> <<"A">>,      TestGroupName |-> <<"h">>] }

\* A tab the index was built with and that the tab list no longer holds.
RemovedTab == [Name |-> <<"A", "A">>, TestGroupName |-> <<"g">>]

\* snapshot.Config: canonical dashboard name -> dashboard with its tab list.
Configs ==
    { [isNil |-> FALSE,
       Dashboards |-> [d \in DashboardNames |->
                         [DashboardTab |-> IF d = DashA THEN tabs
                                           ELSE << [Name |-> <<"A">>, TestGroupName |-> <<"h">>] >>]]]
      : tabs \in SeqsUpTo(TabSet, MaxTabs) }

NilConfig == [isNil |-> TRUE]

\* The last tab name of the list whose normalized name is key (the index is
\* filled in list order, a later tab overwriting an earlier one).
RECURSIVE LastNamed(_, _)
LastNamed(tabs, key) ==
    IF Normalize(tabs[Len(tabs)].Name) = key THEN tabs[Len(tabs)].Name
    ELSE LastNamed(SubSeq(tabs, 1, Len(tabs) - 1), key)

\* cachedConfig.generateNormalCache over the dashboards `indexed`, stored
\* with the configuration `Config`.
cachedConfig(Config, indexed) ==
    [Config |-> Config,
     NormalDashboard |->
        [k \in {Normalize(d) : d \in DOMAIN indexed} |->
            CHOOSE d \in DOMAIN indexed : Normalize(d) = k],
     NormalDashboardTab |->
        [k \in {Normalize(d) : d \in DOMAIN indexed} |->
            LET tabs == indexed[CHOOSE d \in DOMAIN indexed : Normalize(d) = k].DashboardTab
            IN  [t \in {Normalize(tabs[i].Name) : i \in 1..Len(tabs)} |-> LastNamed(tabs, t)]]]

WithRemovedTab(Config) ==
    [d \in DOMAIN Config.Dashboards |->
        [DashboardTab |-> Append(Config.Dashboards[d].DashboardTab, RemovedTab)]]

\* The cached configurations a lookup may meet: no configuration, an index
\* built from the configuration it is stored with, and an index that still
\* names a tab the tab lists no longer hold.
CachedConfigs ==
    {[Config |-> NilConfig, NormalDashboard |-> <<>>, NormalDashboardTab |-> <<>>]}
    \cup {cachedConfig(c, c.Dashboards) : c \in Configs}
    \cup {cachedConfig(c, WithRemovedTab(c)) : c \in Configs}

Found(dashboardName, tabName, testGroupName, err) ==
    [dashboardName |-> dashboardName, tabName |-> tabName,
     testGroupName |-> testGroupName, err |-> err]

\* for _, tab := range ...DashboardTab { if tab.Name == tabName { return ... } }
RECURSIVE scanTabs(_, _, _, _)
scanTabs(tabs, i, dashboardName, tabName) ==
    IF i > Len(tabs)
    THEN Found(dashboardName, tabName, <<>>, "Test group not found")
    ELSE IF tabs[i].Name = tabName
         THEN Found(dashboardName, tabName, tabs[i].TestGroupName, nil)
         ELSE scanTabs(tabs, i + 1, dashboardName, tabName)

\* Mutant: a missing tab is reported with the dashboard name left empty too.
findDashboardTabLosesDashboard(cfg, dashboardInput, tabInput) ==
    IF cfg.Config.isNil
    THEN Found(<<>>, <<>>, <<>>, "empty config")
    ELSE
    LET dashboardKey == Normalize(dashboardInput)
        tabKey == Normalize(tabInput)
    IN  IF dashboardKey \notin DOMAIN cfg.NormalDashboard
        THEN Found(<<>>, <<>>, <<>>, "Dashboard not found")
        ELSE
        LET dashboardName == cfg.NormalDashboard[dashboardKey]
        IN  IF tabKey \notin DOMAIN cfg.NormalDashboardTab[dashboardKey]
            THEN Found(<<>>, <<>>, <<>>, "Tab not found")
            ELSE scanTabs(cfg.Config.Dashboards[dashboardName].DashboardTab, 1,
                          dashboardName,
                          cfg.NormalDashboardTab[dashboardKey][tabKey])

findDashboardTab(cfg, dashboardInput, tabInput) ==
    IF cfg.Config.isNil
    THEN Found(<<>>, <<>>, <<>>, "empty config")
    ELSE
    LET dashboardKey == Normalize(dashboardInput)
        tabKey == Normalize(tabInput)
    IN  IF dashboardKey \notin DOMAIN cfg.NormalDashboard
        THEN Found(<<>>, <<>>, <<>>, "Dashboard not found")
        ELSE
        LET dashboardName == cfg.NormalDashboard[dashboardKey]
        IN  IF tabKey \notin DOMAIN cfg.NormalDashboardTab[dashboardKey]
            THEN Found(dashboardName, <<>>, <<>>, "Tab not found")
            ELSE scanTabs(cfg.Config.Dashboards[dashboardName].DashboardTab, 1,
                          dashboardName,
                          cfg.NormalDashboardTab[dashboardKey][tabKey])

NameInputs == SeqsUpTo(Chars, MaxNameLen)

InitLookup ==
    /\ pc = "call"
    /\ args \in [cfg : CachedConfigs, dashboardInput : NameInputs, tabInput : NameInputs]
    /\ result = None
    /\ IdleConc

FindDashboardTab ==
    /\ pc = "call"
    /\ pc' = "return"
    /\ result' = [kind |-> "found",
                  found |-> findDashboardTab(args.cfg, args.dashboardInput, args.tabInput)]
    /\ UNCHANGED <<args, concVars>>

NextLookup == FindDashboardTab

SpecLookup == InitLookup /\ [][NextLookup]_vars

\* The tabs of the dashboard's list that carry the canonical tab name.
Matching(tabs, tabName) == {i \in 1..Len(tabs) : tabs[i].Name = tabName}

\* C3: on a non-empty config findDashboardTab has three failure tiers and one
\* success: (1) dashboard key not indexed: error, all three names empty;
\* (2) tab key not indexed for the dashboard: error, canonical dashboard name
\* set, tab and test group empty; (3) no tab of the dashboard's list carries
\* the canonical tab name: error, dashboard and tab set, test group empty;
\* (4) otherwise no error and the test group of the first such tab.
C3_LookupTiers ==
    (pc = "return" /\ result.kind = "found" /\ ~args.cfg.Config.isNil) =>
    LET cfg == args.cfg
        f == result.found
        dKey == Normalize(args.dashboardInput)
        tKey == Normalize(args.tabInput)
    IN  IF dKey \notin DOMAIN cfg.NormalDashboard
        THEN f.err # nil /\ f.dashboardName = <<>> /\ f.tabName = <<>> /\ f.testGroupName = <<>>
        ELSE IF tKey \notin DOMAIN cfg.NormalDashboardTab[dKey]
        THEN /\ f.err # nil
             /\ f.dashboardName = cfg.NormalDashboard[dKey]
             /\ f.tabName = <<>> /\ f.testGroupName = <<>>
        ELSE LET dName == cfg.NormalDashboard[dKey]
                 tName == cfg.NormalDashboardTab[dKey][tKey]
                 tabs == cfg.Config.Dashboards[dName].DashboardTab
                 hits == Matching(tabs, tName)
             IN  /\ f.dashboardName = dName
                 /\ f.tabName = tName
                 /\ IF hits = {}
                    THEN f.err # nil /\ f.testGroupName = <<>>
                    ELSE /\ f.err = nil
                         /\ \E i \in hits :
                               /\ \A j \in hits : i <= j
                               /\ f.testGroupName = tabs[i].TestGroupName

\* A lookup through a non-trivial normalization that succeeds on a list with
\* two tabs of the same name and different test groups.
C3_Witness ==
    /\ pc = "return"
    /\ result.kind = "found"
    /\ ~args.cfg.Config.isNil
    /\ result.found.err = nil
    /\ args.dashboardInput # result.found.dashboardName
    /\ LET tabs == args.cfg.Config.Dashboards[result.found.dashboardName].DashboardTab
       IN  /\ Cardinality(Matching(tabs, result.found.tabName)) = 2
           /\ tabs[1].TestGroupName # tabs[2].TestGroupName

\* The third tier: both keys indexed, no tab of that name in the list.
C3_WitnessTier3 ==
    /\ pc = "return"
    /\ result.kind = "found"
    /\ result.found.err = "Test group not found"
    /\ result.found.tabName # <<>>

(***************************************************************************)
(* Path Resolver and blob fetch: Server.configPath, gcs.Path               *)
(* .ResolveReference, tabulator.TabStatePath, Server.GroupGrid and         *)
(* Server.Grid (state.go 66-94).                                           *)
(*                                                                         *)
(* An object path is a bucket and a sequence of path segments.  A segment  *)
(* holding "%" stands for a reference that does not parse.                 *)
(***************************************************************************)
Malformed(name) == "%" \in Range(name)

NonEmpty(name) == name # <<>>

\* path.Join: the non-empty elements, in order, as the segments of one path.
pathJoin(elems) == SelectSeq(elems, NonEmpty)

DefaultBucket == <<"d">>

\* Server.configPath: the base location of a scope (the server's default
\* when the scope is empty); an unparseable scope is an error.
configPath(scope) ==
    IF Malformed(scope) THEN [path |-> None, err |-> "invalid scope"]
    ELSE [path |-> [bucket |-> IF scope = <<>> THEN DefaultBucket ELSE scope,
                    object |-> << <<"c">> >>],
          err |-> nil]

\* gcs.Path.ResolveReference: the reference replaces the last segment of the
\* base object; a reference that does not parse is an error.
ResolveReference(base, ref) ==
    IF \E i \in 1..Len(ref) : Malformed(ref[i])
    THEN [path |-> None, err |-> "invalid reference"]
    ELSE [path |-> [bucket |-> base.bucket,
                    object |-> SubSeq(base.object, 1, Len(base.object) - 1) \o ref],
          err |-> nil]

\* tabulator.TabStatePath: <tabPrefix>/<dashboard>/<tab> under the base.
TabStatePath(base, tabPrefix, dashboardName, tabName) ==
    ResolveReference(base, pathJoin(<<tabPrefix, dashboardName, tabName>>))

\* gcs.DownloadGrid: what the store answers is the environment's choice.
DownloadGrid(env, path) == [grid |-> env.download.grid, err |-> env.download.err]

Fetched(grid, err, fetched) == [grid |-> grid, err |-> err, fetched |-> fetched]

NilGrid == [isNil |-> TRUE]

GroupGrid(s, env, base, groupName) ==
    LET groupPath == ResolveReference(base, pathJoin(<<s.GridPathPrefix, groupName>>))
    IN  IF groupPath.err # nil
        THEN Fetched(NilGrid, "resolve: invalid reference", <<>>)
        ELSE LET got == DownloadGrid(env, groupPath.path)
             IN  IF got.err # nil
                 THEN Fetched(NilGrid, "load: " \o got.err, <<groupPath.path>>)
                 ELSE Fetched(got.grid, nil, <<groupPath.path>>)

\* Mutant: the tab-state path is used when the prefix is NOT configured.
GridModeInverted(s, env, scope, dashboardName, tabName, testGroupNanme) ==
    LET base == configPath(scope)
    IN  IF base.err # nil THEN Fetched(NilGrid, base.err, <<>>)
        ELSE IF s.TabPathPrefix # <<>>
        THEN GroupGrid(s, env, base.path, testGroupNanme)
        ELSE LET path == TabStatePath(base.path, s.TabPathPrefix, dashboardName, tabName)
             IN  IF path.err # nil
                 THEN Fetched(NilGrid, "tab state path: invalid reference", <<>>)
                 ELSE LET got == DownloadGrid(env, path.path)
                      IN  Fetched(IF got.err # nil THEN NilGrid ELSE got.grid,
                                  got.err, <<path.path>>)

Grid(s, env, scope, dashboardName, tabName, testGroupNanme) ==
    LET base == configPath(scope)
    IN  IF base.err # nil THEN Fetched(NilGrid, base.err, <<>>)
        ELSE IF s.TabPathPrefix = <<>>
        THEN GroupGrid(s, env, base.path, testGroupNanme)
        ELSE LET path == TabStatePath(base.path, s.TabPathPrefix, dashboardName, tabName)
             IN  IF path.err # nil
                 THEN Fetched(NilGrid, "tab state path: invalid reference", <<>>)
                 ELSE LET got == DownloadGrid(env, path.path)
                      IN  Fetched(IF got.err # nil THEN NilGrid ELSE got.grid,
                                  got.err, <<path.path>>)

EmptyGrid == [isNil |-> FALSE, Columns |-> <<>>, Rows |-> <<>>]

\* What the blob store may answer.
Downloads ==
    { [grid |-> EmptyGrid, err |-> nil],
      [grid |-> NilGrid,   err |-> nil],
      [grid |-> NilGrid,   err |-> "storage: object doesn't exist"],
      [grid |-> NilGrid,   err |-> "context deadline exceeded"],
      [grid |-> NilGrid,   err |-> "context canceled"] }

Prefixes == {<<>>, <<"p">>, <<"%">>}
Scopes == {<<>>, <<"s">>, <<"%">>}
TestGroupNames == {<<>>, <<"g">>, <<"h">>}

Servers == [TabPathPrefix : Prefixes, GridPathPrefix : Prefixes]

InitGrid ==
    /\ pc = "call"
    /\ args \in [s : Servers, env : [download : Downloads], scope : Scopes,
                 dashboardName : DashboardNames \cup {<<>>},
                 tabName : {t.Name : t \in TabSet},
                 testGroupNanme : TestGroupNames]
    /\ result = None
    /\ IdleConc

CallGrid ==
    /\ pc = "call"
    /\ pc' = "return"
    /\ result' = [kind |-> "grid",
                  got |-> Grid(args.s, args.env, args.scope, args.dashboardName,
                               args.tabName, args.testGroupNanme)]
    /\ UNCHANGED <<args, concVars>>

NextGrid == CallGrid

SpecGrid == InitGrid /\ [][NextGrid]_vars

\* C7: Grid chooses the resolution mode by the tab-path-prefix alone.  With
\* none configured it fetches exactly the test-group path, base joined with
\* GridPathPrefix/testGroupName, whatever the dashboard and tab names are;
\* with one configured it fetches exactly the tab-state path of (base,
\* TabPathPrefix, dashboardName, tabName), whatever the test-group name is.
\* When the base location or the path cannot be built it returns an error
\* and fetches nothing.
C7_GridMode ==
    (pc = "return" /\ result.kind = "grid") =>
    LET got == result.got
        base == configPath(args.scope)
        want == IF args.s.TabPathPrefix = <<>>
                THEN ResolveReference(base.path,
                                      pathJoin(<<args.s.GridPathPrefix, args.testGroupNanme>>))
                ELSE TabStatePath(base.path, args.s.TabPathPrefix,
                                  args.dashboardName, args.tabName)
    IN  IF base.err # nil
        THEN got.err # nil /\ got.fetched = <<>>
        ELSE /\ IF want.err # nil
                THEN got.err # nil /\ got.fetched = <<>>
                ELSE got.fetched = <<want.path>>
             /\ IF args.s.TabPathPrefix = <<>>
                THEN \A d \in DashboardNames \cup {<<>>} : \A t \in {x.Name : x \in TabSet} :
                        Grid(args.s, args.env, args.scope, d, t, args.testGroupNanme) = got
                ELSE \A g \in TestGroupNames :
                        Grid(args.s, args.env, args.scope, args.dashboardName,
                             args.tabName, g) = got

\* Grid fetched the tab-state path of a configured prefix.
C7_Witness ==
    /\ pc = "return"
    /\ result.kind = "grid"
    /\ args.s.TabPathPrefix = <<"p">>
    /\ args.dashboardName = DashB
    /\ result.got.fetched =
          << [bucket |-> <<"s">>, object |-> << <<"p">>, DashB, args.tabName >>] >>

\* Grid fell back to the test-group path.
C7_WitnessGroup ==
    /\ pc = "return"
    /\ result.kind = "grid"
    /\ args.s.TabPathPrefix = <<>>
    /\ result.got.fetched =
          << [bucket |-> DefaultBucket, object |-> << <<"p">>, <<"g">> >>] >>

(***************************************************************************)
(* Grid Service: ListHeaders (state.go 111-155) and ListRows (state.go     *)
(* 175-226) as functions of the server s, the request req and the answers  *)
(* env of the collaborators (getConfig, the blob store).  The read lock    *)
(* the handlers take is modelled in SpecConc.                              *)
(***************************************************************************)
Returned(resp, err, fetched) ==
    [resp |-> resp, err |-> err, panicked |-> FALSE, fetched |-> fetched]

\* A run-time panic (index out of range) unwinds the handler: nothing is
\* returned.
Panicked(fetched) ==
    [resp |-> None, err |-> nil, panicked |-> TRUE, fetched |-> fetched]

\* int64(f) and int32(f) of an integral-valued float64 quotient: the
\* conversion truncates toward zero.
TruncDiv(a, b) == IF a >= 0 THEN a \div b ELSE -((-a) \div b)

\* math.Mod(a, b): the remainder has the sign of a.
MathMod(a, b) == IF a >= 0 THEN a % b ELSE -((-a) % b)

MillisPerSecond == 1000
NanosPerMilli == 1000000

\* The body of the loop over grid.Columns.
headerOf(gColumn) ==
    [Name |-> gColumn.Name,
     Build |-> gColumn.Build,
     Started |-> [Seconds |-> TruncDiv(gColumn.Started, MillisPerSecond),
                  Nanos |-> MathMod(gColumn.Started, MillisPerSecond) * NanosPerMilli],
     Extra |-> gColumn.Extra,
     HotlistIds |-> gColumn.HotlistIds]

\* The steps the two handlers share: getConfig, findDashboardTab, Grid and
\* the nil-grid test.  `project` is meaningful only when err is nil.
resolveGrid(s, env, req) ==
    IF env.getConfig.err # nil
    THEN [grid |-> NilGrid, err |-> env.getConfig.err, fetched |-> <<>>]
    ELSE
    LET f == findDashboardTab(env.getConfig.cfg, req.dashboard, req.tab)
    IN  IF f.err # nil
        THEN [grid |-> NilGrid, err |-> f.err, fetched |-> <<>>]
        ELSE
        LET g == Grid(s, env, req.scope, f.dashboardName, f.tabName, f.testGroupName)
        IN  IF g.err # nil
            THEN [grid |-> NilGrid, err |-> "Dashboard or tab not found",
                  fetched |-> g.fetched]
            ELSE IF g.grid.isNil
            THEN [grid |-> NilGrid, err |-> "grid not found", fetched |-> g.fetched]
            ELSE [grid |-> g.grid, err |-> nil, fetched |-> g.fetched]

ListHeaders(s, env, req) ==
    LET r == resolveGrid(s, env, req)
    IN  IF r.err # nil THEN Returned(None, r.err, r.fetched)
        ELSE Returned([Headers |-> [i \in 1..Len(r.grid.Columns) |->
                                        headerOf(r.grid.Columns[i])]],
                      nil, r.fetched)

\* The indexing of the four slices at cellIdx (0-based in the code) is in
\* range.
InRange(gRow, decoded, cellIdx) ==
    /\ cellIdx <= Len(decoded)
    /\ cellIdx <= Len(gRow.CellIds)
    /\ cellIdx <= Len(gRow.Messages)
    /\ cellIdx <= Len(gRow.Icons)

\* Mutant: the cells pair result i with the cell id, message and icon of the
\* mirrored position.
rowOfReversed(gRow) ==
    LET cellsCount == Len(gRow.CellIds)
        gRowDecodedResults == decodeRLE(gRow.Results)
    IN  IF \E cellIdx \in 1..cellsCount : ~InRange(gRow, gRowDecodedResults, cellIdx)
        THEN [panicked |-> TRUE, row |-> None]
        ELSE [panicked |-> FALSE,
              row |-> [Name |-> gRow.Name,
                       Issues |-> gRow.Issues,
                       Alert |-> gRow.AlertInfo,
                       Cells |-> [cellIdx \in 1..cellsCount |->
                                    [Result |-> gRowDecodedResults[cellIdx],
                                     CellId |-> gRow.CellIds[cellsCount + 1 - cellIdx],
                                     Message |-> gRow.Messages[cellIdx],
                                     Icon |-> gRow.Icons[cellIdx]]]]]

\* The body of the loop over grid.Rows: cellsCount cells, each indexing the
\* decoded results, the cell ids, the messages and the icons at cellIdx.
rowOf(gRow) ==
    LET cellsCount == Len(gRow.CellIds)
        gRowDecodedResults == decodeRLE(gRow.Results)
    IN  IF \E cellIdx \in 1..cellsCount : ~InRange(gRow, gRowDecodedResults, cellIdx)
        THEN [panicked |-> TRUE, row |-> None]
        ELSE [panicked |-> FALSE,
              row |-> [Name |-> gRow.Name,
                       Issues |-> gRow.Issues,
                       Alert |-> gRow.AlertInfo,
                       Cells |-> [cellIdx \in 1..cellsCount |->
                                    [Result |-> gRowDecodedResults[cellIdx],
                                     CellId |-> gRow.CellIds[cellIdx],
                                     Message |-> gRow.Messages[cellIdx],
                                     Icon |-> gRow.Icons[cellIdx]]]]]

ListRows(s, env, req) ==
    LET r == resolveGrid(s, env, req)
    IN  IF r.err # nil THEN Returned(None, r.err, r.fetched)
        ELSE IF \E i \in 1..Len(r.grid.Rows) : rowOf(r.grid.Rows[i]).panicked
        THEN Panicked(r.fetched)
        ELSE Returned([Rows |-> [i \in 1..Len(r.grid.Rows) |-> rowOf(r.grid.Rows[i]).row]],
                      nil, r.fetched)

(***************************************************************************)
(* The handlers on grids of every shape, behind a configuration and a      *)
(* request that resolve.                                                   *)
(***************************************************************************)
MaxColumns == 2
MaxRows == 2

TheConfig ==
    [isNil |-> FALSE,
     Dashboards |-> [d \in DashboardNames |->
                        [DashboardTab |-> << [Name |-> <<"A">>, TestGroupName |-> <<"g">>],
                                             [Name |-> <<"a", "A">>, TestGroupName |-> <<"h">>] >>]]]

TheServer == [TabPathPrefix |-> <<"p">>, GridPathPrefix |-> <<"g">>]

TheRequest == [scope |-> <<>>, dashboard |-> <<" ", "a">>, tab |-> <<"A", "a">>]

EnvWith(grid) ==
    [getConfig |-> [cfg |-> cachedConfig(TheConfig, TheConfig.Dashboards), err |-> nil],
     download |-> [grid |-> grid, err |-> nil]]

StartedValues == {-2001, -1500, -1000, -1, 0, 1, 999, 1000, 1500, 2001}

ColumnSet ==
    [Name : {"c1"}, Build : {"b1", "b2"}, Started : StartedValues,
     Extra : {<<"x">>}, HotlistIds : {"h1"}]

InitHeaders ==
    /\ pc = "call"
    /\ \E columns \in SeqsUpTo(ColumnSet, MaxColumns) :
          args = [s |-> TheServer,
                  env |-> EnvWith([isNil |-> FALSE, Columns |-> columns, Rows |-> <<>>]),
                  req |-> TheRequest]
    /\ result = None
    /\ IdleConc

CallListHeaders ==
    /\ pc = "call"
    /\ pc' = "return"
    /\ result' = [kind |-> "headers", got |-> ListHeaders(args.s, args.env, args.req)]
    /\ UNCHANGED <<args, concVars>>

NextHeaders == CallListHeaders

SpecHeaders == InitHeaders /\ [][NextHeaders]_vars

\* The encoded results, cell ids, messages and icons of a row: every
\* combination of the lengths 0..2 that agree, and combinations that do not.
Attachments ==
    { [Messages |-> <<>>,           Icons |-> <<>>],
      [Messages |-> <<"m1">>,       Icons |-> <<"i1">>],
      [Messages |-> <<"m1", "m2">>, Icons |-> <<"i1", "i2">>],
      [Messages |-> <<"m1">>,       Icons |-> <<"i1", "i2">>],
      [Messages |-> <<"m1", "m2">>, Icons |-> <<"i1">>] }

RowBodies ==
    { [Results |-> r, CellIds |-> c, Messages |-> a.Messages, Icons |-> a.Icons]
      : r \in { <<>>, <<1>>, <<2, 1>>, <<1, 2>>, <<2, 1, 1, 1>> },
        c \in { <<>>, <<"a">>, <<"a", "b">> },
        a \in Attachments }

\* Row i of a grid: a body, and a name, issues and alert of its own.
GridRow(body, i) ==
    [Name |-> <<"test", i>>,
     Issues |-> IF i % 2 = 0 THEN <<"bug">> ELSE <<>>,
     AlertInfo |-> IF i % 2 = 0 THEN "alert" ELSE "none",
     Results |-> body.Results, CellIds |-> body.CellIds,
     Messages |-> body.Messages, Icons |-> body.Icons]

InitRows ==
    /\ pc = "call"
    /\ \E bodies \in SeqsUpTo(RowBodies, MaxRows) :
          args = [s |-> TheServer,
                  env |-> EnvWith([isNil |-> FALSE, Columns |-> <<>>,
                                   Rows |-> [i \in 1..Len(bodies) |-> GridRow(bodies[i], i)]]),
                  req |-> TheRequest]
    /\ result = None
    /\ IdleConc

CallListRows ==
    /\ pc = "call"
    /\ pc' = "return"
    /\ result' = [kind |-> "rows", got |-> ListRows(args.s, args.env, args.req)]
    /\ UNCHANGED <<args, concVars>>

NextRows == CallListRows

SpecRows == InitRows /\ [][NextRows]_vars

GridRows == args.env.download.grid.Rows
GridColumns == args.env.download.grid.Columns

\* len(decode(results)) = len(cellIds) = len(messages) = len(icons)
Aligned(gRow) ==
    /\ Len(decodeRLE(gRow.Results)) = Len(gRow.CellIds)
    /\ Len(gRow.Messages) = Len(gRow.CellIds)
    /\ Len(gRow.Icons) = Len(gRow.CellIds)

\* C2: a row whose encoded results have odd length makes ListRows fail: no
\* response carrying that row is returned.
C2_OddLengthFails ==
    (pc = "return" /\ result.kind = "rows"
        /\ \E i \in 1..Len(GridRows) : Len(GridRows[i].Results) % 2 = 1) =>
    result.got.resp = None

\* C4: a row whose decoded results, cell ids, messages and icons are not all
\* of one length makes ListRows return an error: no truncated row is
\* returned and no slice is indexed out of range.
C4_MismatchFails ==
    (pc = "return" /\ result.kind = "rows"
        /\ \E i \in 1..Len(GridRows) : ~Aligned(GridRows[i])) =>
    (result.got.err # nil /\ ~result.got.panicked /\ result.got.resp = None)

\* C5: every header carries seconds = floor(millis / 1000) and nanos =
\* (millis mod 1000) * 1000000 with the non-negative modulo, so that
\* 0 <= nanos < 1000000000 and seconds * 1000 + nanos / 1000000 = millis.
C5_TimestampFloor ==
    (pc = "return" /\ result.kind = "headers") =>
    /\ result.got.err = nil
    /\ Len(result.got.resp.Headers) = Len(GridColumns)
    /\ \A i \in 1..Len(GridColumns) :
          LET millis == GridColumns[i].Started
              started == result.got.resp.Headers[i].Started
          IN  /\ started.Seconds = millis \div 1000
              /\ started.Nanos = (millis % 1000) * 1000000
              /\ 0 <= started.Nanos /\ started.Nanos < 1000000000
              /\ started.Seconds * 1000 + (started.Nanos \div 1000000) = millis
              /\ (millis = 1500 => started = [Seconds |-> 1, Nanos |-> 500000000])

\* C8: when every row of the fetched grid is aligned, the response has one
\* row per grid row, in order, with the row's name, issues and alert and
\* len(cellIds) cells, cell i being (decode(results)[i], cellIds[i],
\* messages[i], icons[i]); results [1,2] with cell ids [a,b] give two cells
\* of result 1 with cell ids a and b.
C8_RowsZipped ==
    (pc = "return" /\ result.kind = "rows"
        /\ \A i \in 1..Len(GridRows) : Aligned(GridRows[i])) =>
    /\ result.got.err = nil
    /\ ~result.got.panicked
    /\ Len(result.got.resp.Rows) = Len(GridRows)
    /\ \A i \in 1..Len(GridRows) :
          LET gRow == GridRows[i]
              row == result.got.resp.Rows[i]
          IN  /\ row.Name = gRow.Name
              /\ row.Issues = gRow.Issues
              /\ row.Alert = gRow.AlertInfo
              /\ Len(row.Cells) = Len(gRow.CellIds)
              /\ \A k \in 1..Len(gRow.CellIds) :
                    row.Cells[k] = [Result |-> decodeRLE(gRow.Results)[k],
                                    CellId |-> gRow.CellIds[k],
                                    Message |-> gRow.Messages[k],
                                    Icon |-> gRow.Icons[k]]
              /\ (gRow.Results = <<1, 2>> /\ gRow.CellIds = <<"a", "b">>) =>
                    /\ Len(row.Cells) = 2
                    /\ row.Cells[1].Result = 1 /\ row.Cells[1].CellId = "a"
                    /\ row.Cells[2].Result = 1 /\ row.Cells[2].CellId = "b"

\* Two aligned rows, the first the row of the example, the second decoding
\* to two different results.
C8_Witness ==
    /\ pc = "return"
    /\ result.kind = "rows"
    /\ Len(GridRows) = 2
    /\ \A i \in 1..2 : Aligned(GridRows[i])
    /\ GridRows[1].Results = <<1, 2>>
    /\ GridRows[2].Results = <<2, 1, 1, 1>>
    /\ Len(result.got.resp.Rows) = 2
    /\ result.got.resp.Rows[2].Cells[2] =
          [Result |-> 1, CellId |-> "b", Message |-> "m2", Icon |-> "i2"]

(***************************************************************************)
(* HTTP boundary: ListHeadersHTTP (state.go 157-173) and ListRowsHTTP      *)
(* (state.go 228-244).                                                     *)
(***************************************************************************)
StatusNotFound == "404 Not Found"
StatusOK == "200 OK"

\* A panic in the handler unwinds through the HTTP method: nothing is
\* written by it.
Aborted == [status |-> "aborted", body |-> None]

\* resp, err := s.ListX(...); if err != nil { http.Error(w, err.Error(),
\* http.StatusNotFound); return }; s.writeJSON(w, &resp)
httpReply(got) ==
    IF got.panicked THEN Aborted
    ELSE IF got.err # nil THEN [status |-> StatusNotFound, body |-> got.err]
    ELSE [status |-> StatusOK, body |-> got.resp]

\* The request is built from the query parameter scope and the path
\* variables dashboard and tab.
ListHeadersHTTP(s, env, r) ==
    httpReply(ListHeaders(s, env, [scope |-> r.query.scope,
                                   dashboard |-> r.vars.dashboard, tab |-> r.vars.tab]))

ListRowsHTTP(s, env, r) ==
    httpReply(ListRows(s, env, [scope |-> r.query.scope,
                                dashboard |-> r.vars.dashboard, tab |-> r.vars.tab]))

\* What getConfig may answer.
GetConfigs ==
    { [cfg |-> cachedConfig(TheConfig, TheConfig.Dashboards), err |-> nil],
      [cfg |-> cachedConfig(TheConfig, WithRemovedTab(TheConfig)), err |-> nil],
      [cfg |-> None, err |-> "config unavailable"],
      [cfg |-> None, err |-> "context deadline exceeded"] }

SampleGrid ==
    [isNil |-> FALSE,
     Columns |-> << [Name |-> "c1", Build |-> "b1", Started |-> 1500,
                     Extra |-> <<"x">>, HotlistIds |-> "h1"] >>,
     Rows |-> << GridRow([Results |-> <<1, 2>>, CellIds |-> <<"a", "b">>,
                          Messages |-> <<"m1", "m2">>, Icons |-> <<"i1", "i2">>], 1) >>]

RequestNames == { <<"A">>, <<" ", "a">>, <<"a", "a">>, <<"A", "A">>, <<" ">> }

HTTPRequests ==
    [query : [scope : Scopes], vars : [dashboard : RequestNames, tab : RequestNames]]

InitHTTP ==
    /\ pc = "call"
    /\ args \in [op : {"ListHeaders", "ListRows"},
                 s : Servers,
                 env : [getConfig : GetConfigs,
                        download : Downloads \cup {[grid |-> SampleGrid, err |-> nil]}],
                 r : HTTPRequests]
    /\ result = None
    /\ IdleConc

ServeListHeadersHTTP ==
    /\ pc = "call"
    /\ args.op = "ListHeaders"
    /\ pc' = "return"
    /\ result' = [kind |-> "http", reply |-> ListHeadersHTTP(args.s, args.env, args.r)]
    /\ UNCHANGED <<args, concVars>>

ServeListRowsHTTP ==
    /\ pc = "call"
    /\ args.op = "ListRows"
    /\ pc' = "return"
    /\ result' = [kind |-> "http", reply |-> ListRowsHTTP(args.s, args.env, args.r)]
    /\ UNCHANGED <<args, concVars>>

NextHTTP == ServeListHeadersHTTP \/ ServeListRowsHTTP

SpecHTTP == InitHTTP /\ [][NextHTTP]_vars

\* The internal error a request of SpecHTTP ends with, by kind and message,
\* read off the answers of the collaborators stage by stage.
InternalError ==
    LET env == args.env
        f == findDashboardTab(env.getConfig.cfg, args.r.vars.dashboard, args.r.vars.tab)
        g == Grid(args.s, env, args.r.query.scope, f.dashboardName, f.tabName,
                  f.testGroupName)
    IN  IF env.getConfig.err # nil
        THEN [kind |-> IF env.getConfig.err = "context deadline exceeded"
                       THEN "Timeout" ELSE "ConfigUnavailable",
              msg |-> env.getConfig.err]
        ELSE IF f.err # nil THEN [kind |-> "NotFound", msg |-> f.err]
        ELSE IF g.err # nil /\ g.fetched = <<>>
        THEN [kind |-> "InvalidReference", msg |-> g.err]
        ELSE IF g.err # nil
        THEN [kind |-> IF env.download.err \in {"context deadline exceeded", "context canceled"}
                       THEN "Timeout" ELSE "GridUnavailable",
              msg |-> g.err]
        ELSE IF g.grid.isNil THEN [kind |-> "NotFound", msg |-> "grid not found"]
        ELSE [kind |-> "none", msg |-> nil]

\* C6: an internal error is answered with the "not found" status exactly
\* when it is of the NotFound class (dashboard, tab or test group not found,
\* nil grid); every other internal error is answered with another, generic
\* failure status and the error's message as detail.
C6_StatusMapping ==
    (pc = "return" /\ result.kind = "http" /\ InternalError.kind # "none") =>
    IF InternalError.kind = "NotFound"
    THEN result.reply.status = StatusNotFound
    ELSE /\ result.reply.status \notin {StatusNotFound, StatusOK}
         /\ result.reply.body = InternalError.msg

(***************************************************************************)
(* Concurrency: the read lock of the cached configuration in ListHeaders   *)
(* (state.go 112-134) and ListRows (state.go 176-199), against a refresh   *)
(* that takes the exclusive lock to swap the snapshot.                     *)
(*                                                                         *)
(* Each request runs its handler step by step:                             *)
(*   start   -> getConfig                                                  *)
(*   rlock   -> cfg.Mutex.RLock(); defer cfg.Mutex.RUnlock()               *)
(*   lookup  -> findDashboardTab                                           *)
(*   grid    -> s.Grid, the blob fetch, in progress                        *)
(*   project -> the loop building the response                             *)
(*   return  -> the deferred calls run                                     *)
(*   done                                                                  *)
(***************************************************************************)
NumRequests == 2
MaxRefresh == 1

Requests == 1..NumRequests

InitConc ==
    /\ pc = "idle"
    /\ args = None
    /\ result = None
    /\ reqPc = [r \in Requests |-> "start"]
    /\ reqOp \in [Requests -> {"ListHeaders", "ListRows"}]
    /\ readers = {}
    /\ writer = "idle"
    /\ snapshot = 0
    /\ acquired = [r \in Requests |-> 0]
    /\ released = [r \in Requests |-> 0]
    /\ outcome = [r \in Requests |-> "pending"]

\* cfg, err := s.getConfig(...); if err != nil { return nil, err }
GetConfig(r) ==
    /\ reqPc[r] = "start"
    /\ \/ /\ reqPc' = [reqPc EXCEPT ![r] = "rlock"]
          /\ UNCHANGED outcome
       \/ /\ reqPc' = [reqPc EXCEPT ![r] = "done"]
          /\ outcome' = [outcome EXCEPT ![r] = "config unavailable"]
    /\ UNCHANGED <<seqVars, reqOp, readers, writer, snapshot, acquired, released>>

\* cfg.Mutex.RLock(): blocks while a writer holds or waits for the lock.
RLock(r) ==
    /\ reqPc[r] = "rlock"
    /\ writer = "idle"
    /\ readers' = readers \cup {r}
    /\ acquired' = [acquired EXCEPT ![r] = @ + 1]
    /\ reqPc' = [reqPc EXCEPT ![r] = "lookup"]
    /\ UNCHANGED <<seqVars, reqOp, writer, snapshot, released, outcome>>

\* findDashboardTab; if err != nil { return nil, err }; otherwise s.Grid is
\* called and the blob fetch starts.
Lookup(r) ==
    /\ reqPc[r] = "lookup"
    /\ \/ /\ reqPc' = [reqPc EXCEPT ![r] = "grid"]
          /\ UNCHANGED outcome
       \/ /\ reqPc' = [reqPc EXCEPT ![r] = "return"]
          /\ outcome' = [outcome EXCEPT ![r] = "not found"]
    /\ UNCHANGED <<seqVars, reqOp, readers, writer, snapshot, acquired, released>>

\* s.Grid returns: a grid, an error (a failed fetch, the deadline of the
\* request's context or a cancellation) or a nil grid.
FetchGrid(r) ==
    /\ reqPc[r] = "grid"
    /\ \/ /\ reqPc' = [reqPc EXCEPT ![r] = "project"]
          /\ UNCHANGED outcome
       \/ /\ reqPc' = [reqPc EXCEPT ![r] = "return"]
          /\ \E e \in {"fetch failed", "deadline exceeded", "grid not found"} :
                outcome' = [outcome EXCEPT ![r] = e]
    /\ UNCHANGED <<seqVars, reqOp, readers, writer, snapshot, acquired, released>>

\* The response is built; the loop of ListRows panics on a misaligned row.
Project(r) ==
    /\ reqPc[r] = "project"
    /\ reqPc' = [reqPc EXCEPT ![r] = "return"]
    /\ \/ outcome' = [outcome EXCEPT ![r] = "ok"]
       \/ /\ reqOp[r] = "ListRows"
          /\ outcome' = [outcome EXCEPT ![r] = "panic"]
    /\ UNCHANGED <<seqVars, reqOp, readers, writer, snapshot, acquired, released>>

\* Mutant: RUnlock is called on the success path only, not deferred.
ReturnUnlockOnSuccess(r) ==
    /\ reqPc[r] = "return"
    /\ reqPc' = [reqPc EXCEPT ![r] = "done"]
    /\ IF outcome[r] = "ok"
       THEN /\ readers' = readers \ {r}
            /\ released' = [released EXCEPT ![r] = @ + 1]
       ELSE UNCHANGED <<readers, released>>
    /\ UNCHANGED <<seqVars, reqOp, writer, snapshot, acquired, outcome>>

\* The function returns or unwinds: the deferred cfg.Mutex.RUnlock() and
\* cancel() run.
Return(r) ==
    /\ reqPc[r] = "return"
    /\ reqPc' = [reqPc EXCEPT ![r] = "done"]
    /\ readers' = readers \ {r}
    /\ released' = [released EXCEPT ![r] = @ + 1]
    /\ UNCHANGED <<seqVars, reqOp, writer, snapshot, acquired, outcome>>

\* The refresh asks for the exclusive lock: from now on new readers wait.
RefreshLock ==
    /\ writer = "idle"
    /\ snapshot < MaxRefresh
    /\ writer' = "waiting"
    /\ UNCHANGED <<seqVars, reqPc, reqOp, readers, snapshot, acquired, released, outcome>>

\* Lock() returns once no reader holds the lock.
RefreshLocked ==
    /\ writer = "waiting"
    /\ readers = {}
    /\ writer' = "locked"
    /\ UNCHANGED <<seqVars, reqPc, reqOp, readers, snapshot, acquired, released, outcome>>

\* The snapshot pointer is swapped and the lock released.
RefreshSwap ==
    /\ writer = "locked"
    /\ snapshot' = snapshot + 1
    /\ writer' = "idle"
    /\ UNCHANGED <<seqVars, reqPc, reqOp, readers, acquired, released, outcome>>

Handler(r) ==
    \/ GetConfig(r)
    \/ RLock(r)
    \/ Lookup(r)
    \/ FetchGrid(r)
    \/ Project(r)
    \/ Return(r)

Refresh == RefreshLock \/ RefreshLocked \/ RefreshSwap

NextConc == (\E r \in Requests : Handler(r)) \/ Refresh

SpecConc == InitConc /\ [][NextConc]_vars

\* Every goroutine that can take a step is eventually scheduled; the blob
\* fetch ends, at the latest with the deadline of the request's context.
FairSpecConc ==
    /\ SpecConc
    /\ \A r \in Requests : WF_vars(Handler(r))
    /\ WF_vars(Refresh)

\* C9: a request holds the read lock only while the name lookup runs: no
\* request is in the blob fetch while holding the read lock.
C9_NoLockDuringFetch ==
    \A r \in Requests : reqPc[r] = "grid" => r \notin readers

\* The read lock as the requests' calls account for it.
LockAccounting ==
    /\ readers = {r \in Requests : acquired[r] > released[r]}
    /\ \A r \in Requests :
          /\ acquired[r] <= 1
          /\ released[r] <= acquired[r]
          /\ reqPc[r] = "done" => released[r] = acquired[r]
          /\ outcome[r] = "config unavailable" => acquired[r] = 0
          /\ (reqPc[r] = "done" /\ outcome[r] # "config unavailable") => acquired[r] = 1
    /\ (\A r \in Requests : reqPc[r] = "done") => readers = {}

\* C10: a request that acquires the read lock releases it, exactly once, on
\* every exit path (lookup failure, fetch failure or timeout, nil grid,
\* panic, success); a request whose getConfig fails never acquires it.  So
\* once the requests have finished nobody holds the read lock, and no step
\* of a request changes the snapshot or the state of the refresh.
C10_LockReleased ==
    /\ []LockAccounting
    /\ [][(reqPc' # reqPc) => (snapshot' = snapshot /\ writer' = writer)]_vars
    /\ \A r \in Requests : (r \in readers) ~> (reqPc[r] = "done" /\ r \notin readers)

\* Both requests are done, one after a fetch that hit its deadline and one
\* after a failed lookup, while the snapshot was refreshed.
C10_Witness ==
    /\ \A r \in Requests : reqPc[r] = "done"
    /\ \E r \in Requests : outcome[r] = "deadline exceeded" /\ released[r] = 1
    /\ \E r \in Requests : outcome[r] = "not found" /\ released[r] = 1
    /\ snapshot > 0
    /\ readers = {}

====
